---------------------------- MODULE Spec2Model ----------------------------
(***************************************************************************)
(* Outlet pressure boundaries of the modularWKPressure library:            *)
(*   - modularWKPressure       (three-element RCR Windkessel, BDF1..3)     *)
(*   - vectorFittingImpedance  (pole-residue recursive convolution)        *)
(* and the velocity outlet stabilizedWindkesselVelocity (directionMixed    *)
(* backflow stabilizer), together with the host calls that drive them      *)
(* (time stepping, outer iterations, evaluate, write / restart, copy).     *)
(*                                                                         *)
(* A `scalar` is modelled as an exact rational number with arbitrary       *)
(* precision numerator and denominator, so the arithmetic of the code is   *)
(* followed without rounding: floating-point rounding is not modelled.     *)
(* The arithmetic is written as functions, which TLC applies to evaluated  *)
(* arguments.                                                              *)
(***************************************************************************)
EXTENDS Integers, Sequences, FiniteSets, TLC

(***************************************************************************)
(* Arbitrary-precision naturals: little-endian digit sequences in base     *)
(* Base, without leading zero digits (zero is the empty sequence).         *)
(***************************************************************************)
Base == 10 ^ 4
Big == Seq(Nat)

BigOf[n \in Nat] == IF n = 0 THEN << >> ELSE <<n % Base>> \o BigOf[n \div Base]

BigHead[a \in Big] == IF a = << >> THEN 0 ELSE Head(a)
BigTail[a \in Big] == IF a = << >> THEN << >> ELSE Tail(a)

BigTrim[a \in Big] ==
    IF a = << >> THEN << >>
    ELSE IF a[Len(a)] = 0 THEN BigTrim[SubSeq(a, 1, Len(a) - 1)]
    ELSE a

BigAddC[a \in Big, b \in Big, c \in Nat] ==
    IF a = << >> /\ b = << >>
    THEN (IF c = 0 THEN << >> ELSE <<c>>)
    ELSE <<(BigHead[a] + BigHead[b] + c) % Base>>
         \o BigAddC[BigTail[a], BigTail[b], (BigHead[a] + BigHead[b] + c) \div Base]

BigAdd[a \in Big, b \in Big] == BigAddC[a, b, 0]

\* a - b - br for a >= b + br, digit by digit (leading zeros are left in)
BigSubB[a \in Big, b \in Big, br \in Nat] ==
    IF a = << >> THEN << >>
    ELSE IF Head(a) - BigHead[b] - br < 0
         THEN <<Head(a) - BigHead[b] - br + Base>> \o BigSubB[Tail(a), BigTail[b], 1]
         ELSE <<Head(a) - BigHead[b] - br>> \o BigSubB[Tail(a), BigTail[b], 0]

BigSub[a \in Big, b \in Big] == BigTrim[BigSubB[a, b, 0]]

BigMulD[a \in Big, d \in Nat, c \in Nat] ==
    IF a = << >>
    THEN (IF c = 0 THEN << >> ELSE <<c>>)
    ELSE <<(Head(a) * d + c) % Base>> \o BigMulD[Tail(a), d, (Head(a) * d + c) \div Base]

BigShift[a \in Big] == IF a = << >> THEN << >> ELSE <<0>> \o a

BigMul[a \in Big, b \in Big] ==
    IF a = << >> \/ b = << >> THEN << >>
    ELSE BigAdd[BigTrim[BigMulD[a, Head(b), 0]], BigShift[BigMul[a, Tail(b)]]]

BigLtFrom[a \in Big, b \in Big, i \in Nat] ==
    IF i = 0 THEN FALSE
    ELSE IF a[i] # b[i] THEN a[i] < b[i]
    ELSE BigLtFrom[a, b, i - 1]

BigLt[a \in Big, b \in Big] ==
    IF Len(a) # Len(b) THEN Len(a) < Len(b) ELSE BigLtFrom[a, b, Len(a)]

\* a mod k and a div k for a single digit k > 0 (short division)
BigModD[a \in Big, k \in Nat] ==
    IF a = << >> THEN 0 ELSE (BigModD[Tail(a), k] * Base + Head(a)) % k

BigDivStep[h \in Nat, hi \in Big \X Nat, k \in Nat] ==
    << <<(hi[2] * Base + h) \div k>> \o hi[1], (hi[2] * Base + h) % k >>

BigDivD[a \in Big, k \in Nat] ==
    IF a = << >> THEN << << >>, 0 >>
    ELSE BigDivStep[Head(a), BigDivD[Tail(a), k], k]

BigQuotD[a \in Big, k \in Nat] == BigTrim[BigDivD[a, k][1]]

(***************************************************************************)
(* scalar: a rational [s |-> sign, n |-> |numerator|, d |-> denominator].  *)
(* Common factors 2, 3, 5 and 7 are cancelled after every operation; equal *)
(* values may still have different representations, so values are compared *)
(* with REq / RLt, never with =.                                           *)
(***************************************************************************)
Scalar == [s : {-1, 0, 1}, n : Big, d : Big]

SmallPrimes == <<2, 3, 5, 7>>

RCancel[n \in Big, d \in Big, i \in Nat] ==
    IF i > Len(SmallPrimes) THEN <<n, d>>
    ELSE IF BigModD[n, SmallPrimes[i]] = 0 /\ BigModD[d, SmallPrimes[i]] = 0
         THEN RCancel[BigQuotD[n, SmallPrimes[i]], BigQuotD[d, SmallPrimes[i]], i]
         ELSE RCancel[n, d, i + 1]

RZero == [s |-> 0, n |-> << >>, d |-> <<1>>]

RPair[s \in {-1, 0, 1}, c \in Seq(Big)] == [s |-> s, n |-> c[1], d |-> c[2]]

RMake[s \in {-1, 0, 1}, n \in Big, d \in Big] ==
    IF s = 0 \/ n = << >> THEN RZero ELSE RPair[s, RCancel[n, d, 1]]

Sign[i \in Int] == IF i > 0 THEN 1 ELSE IF i < 0 THEN -1 ELSE 0
Abs[i \in Int] == IF i < 0 THEN -i ELSE i

\* the scalar n/d of two machine integers, d > 0
Rat[n \in Int, d \in Nat] == RMake[Sign[n], BigOf[Abs[n]], BigOf[d]]
RInt[n \in Int] == Rat[n, 1]
ROne == RInt[1]

RNeg[x \in Scalar] == [s |-> -x.s, n |-> x.n, d |-> x.d]
RMag[x \in Scalar] == [s |-> Abs[x.s], n |-> x.n, d |-> x.d]

\* sum of two scalars over the common denominator d
RAddN[sx \in {-1, 1}, a \in Big, sy \in {-1, 1}, b \in Big, d \in Big] ==
    IF sx = sy THEN RMake[sx, BigAdd[a, b], d]
    ELSE IF a = b THEN RZero
    ELSE IF BigLt[a, b] THEN RMake[sy, BigSub[b, a], d]
    ELSE RMake[sx, BigSub[a, b], d]

RAdd[x \in Scalar, y \in Scalar] ==
    IF x.s = 0 THEN y
    ELSE IF y.s = 0 THEN x
    ELSE IF x.d = y.d THEN RAddN[x.s, x.n, y.s, y.n, x.d]
    ELSE RAddN[x.s, BigMul[x.n, y.d], y.s, BigMul[y.n, x.d], BigMul[x.d, y.d]]

RSub[x \in Scalar, y \in Scalar] == RAdd[x, RNeg[y]]
RMul[x \in Scalar, y \in Scalar] == RMake[x.s * y.s, BigMul[x.n, y.n], BigMul[x.d, y.d]]
\* x / y for y # 0
RDiv[x \in Scalar, y \in Scalar] == RMake[x.s * y.s, BigMul[x.n, y.d], BigMul[x.d, y.n]]

REq[x \in Scalar, y \in Scalar] == RSub[x, y].s = 0
RLt[x \in Scalar, y \in Scalar] == RSub[x, y].s < 0
RLe[x \in Scalar, y \in Scalar] == RSub[x, y].s <= 0

\* element-wise equality of two scalarLists
RSeqEq(a, b) ==
    /\ Len(a) = Len(b)
    /\ \A i \in 1..Len(a) : REq[a[i], b[i]]

RSum[a \in Seq(Scalar)] == IF a = << >> THEN RZero ELSE RAdd[Head(a), RSum[Tail(a)]]

(***************************************************************************)
(* Host quantities the boundaries read, and the state of the instances.    *)
(***************************************************************************)
VARIABLES
    time,       \* db().time().value()
    deltaT,     \* db().time().deltaTValue()
    phi,        \* patch flux, one entry per process (per face for the stabilizer)
    phiFound,   \* whether the flux field is registered in the database
    step,       \* number of timesteps the host has taken
    outer,      \* updateCoeffs calls the host has made in this timestep
    wkDict,     \* boundary dictionary the RCR instance was constructed from
    wk,         \* the modularWKPressure instance
    wkR,        \* a modularWKPressure instance restarted from wk's write()
    vfDict,     \* boundary dictionary the pole-residue instance was built from
    vf,         \* the vectorFittingImpedance instance
    vfR,        \* a vectorFittingImpedance instance restarted from vf's write()
    ret,        \* what the last matrix-coefficient call returned
    swDict,     \* boundary dictionary the velocity stabilizer was built from
    sw          \* the stabilizedWindkesselVelocity instance

vars == <<time, deltaT, phi, phiFound, step, outer,
          wkDict, wk, wkR, vfDict, vf, vfR, ret, swDict, sw>>

hostVars == <<time, deltaT, phi, phiFound, step>>
wkVars == <<wkDict, wk, wkR>>
vfVars == <<vfDict, vf, vfR, ret>>
swVars == <<swDict, sw>>

\* bounds of the exploration
MaxSteps == 1
MaxOuter == 2

\* timesteps the host may choose: one ordinary, one far below 1e-6/|pole|
DeltaTs == { Rat[1, 2], Rat[1, 10000000] }

\* patch flux per process (this process's faces first)
PhiValues == { <<RInt[2], RInt[1]>>, <<RInt[-1], RZero>> }

Unbuilt == [status |-> "unbuilt"]
NoDict == [type |-> "none"]
NoRet == [fn |-> "none"]

Fatal(why) == [status |-> "fatal", why |-> why]

\* dictionary::found and dictionary::lookupOrDefault
Found(dict, key) == key \in DOMAIN dict
LookupOrDefault(dict, key, def) == IF Found(dict, key) THEN dict[key] ELSE def

\* sum(): this process's faces only;  gSum(): reduced over all processes
LocalSum(f) == Head(f)
GSum(f) == RSum[f]

(***************************************************************************)
(* modularWKPressure                                                       *)
(***************************************************************************)
\* entries read with lookup(): the base class needs value, the others are members
WKRequired == {"value", "order", "R", "C", "Z", "p0", "q_1"}

\* dictionary constructor with q_3 defaulting to q_1 instead of q_2
WKDictConstructQ3FromQ1(dict) ==
    IF ~(WKRequired \subseteq DOMAIN dict) THEN Fatal("keyword not found")
    ELSE LET p0  == dict["p0"]
             q_1 == dict["q_1"]
             q_2 == LookupOrDefault(dict, "q_2", q_1)
         IN  [ status  |-> "ok",
               phiName |-> LookupOrDefault(dict, "phi", "phi"),
               order   |-> dict["order"],
               R       |-> dict["R"],
               C       |-> dict["C"],
               Z       |-> dict["Z"],
               p1      |-> RZero,
               p0      |-> p0,
               p_1     |-> LookupOrDefault(dict, "p_1", p0),
               q0      |-> RZero,
               q_1     |-> q_1,
               q_2     |-> q_2,
               q_3     |-> LookupOrDefault(dict, "q_3", q_1),
               value   |-> p0,
               updated |-> FALSE ]

\* dictionary constructor
WKDictConstruct(dict) ==
    IF ~(WKRequired \subseteq DOMAIN dict) THEN Fatal("keyword not found")
    ELSE LET p0  == dict["p0"]
             q_1 == dict["q_1"]
             q_2 == LookupOrDefault(dict, "q_2", q_1)
         IN  [ status  |-> "ok",
               phiName |-> LookupOrDefault(dict, "phi", "phi"),
               order   |-> dict["order"],
               R       |-> dict["R"],
               C       |-> dict["C"],
               Z       |-> dict["Z"],
               p1      |-> RZero,
               p0      |-> p0,
               p_1     |-> LookupOrDefault(dict, "p_1", p0),
               q0      |-> RZero,
               q_1     |-> q_1,
               q_2     |-> q_2,
               q_3     |-> LookupOrDefault(dict, "q_3", q_2),
               value   |-> p0,
               updated |-> FALSE ]

\* copy constructor: every member copied, the base class starts not updated
WKCopyConstruct(f) == [f EXCEPT !.updated = FALSE]

\* the flow terms with the common term taken as q0/C, without (1 + Z/R)
WKQ_sourceNoZ(f, q0, dt) ==
    LET common == RDiv[q0, f.C]
        Zdt    == RDiv[f.Z, dt]
        bdf1   == RSub[q0, f.q_1]
        bdf2   == RAdd[RSub[RMul[Rat[3, 2], q0], RMul[RInt[2], f.q_1]],
                       RMul[Rat[1, 2], f.q_2]]
        bdf3   == RSub[RAdd[RSub[RMul[Rat[11, 6], q0], RMul[RInt[3], f.q_1]],
                            RMul[Rat[3, 2], f.q_2]],
                       RMul[Rat[1, 3], f.q_3]]
    IN  CASE f.order = 1 -> RAdd[common, RMul[Zdt, bdf1]]
          [] f.order = 2 -> RAdd[common, RMul[Zdt, bdf2]]
          [] f.order = 3 -> RAdd[common, RMul[Zdt, bdf3]]
          [] OTHER       -> RAdd[common, RMul[Zdt, bdf1]]

\* the three terms of the switch on order_, for current flow q0
WKQ_source(f, q0, dt) ==
    LET common == RMul[RDiv[q0, f.C], RAdd[ROne, RDiv[f.Z, f.R]]]
        Zdt    == RDiv[f.Z, dt]
        bdf1   == RSub[q0, f.q_1]
        bdf2   == RAdd[RSub[RMul[Rat[3, 2], q0], RMul[RInt[2], f.q_1]],
                       RMul[Rat[1, 2], f.q_2]]
        bdf3   == RSub[RAdd[RSub[RMul[Rat[11, 6], q0], RMul[RInt[3], f.q_1]],
                            RMul[Rat[3, 2], f.q_2]],
                       RMul[Rat[1, 3], f.q_3]]
    IN  CASE f.order = 1 -> RAdd[common, RMul[Zdt, bdf1]]
          [] f.order = 2 -> RAdd[common, RMul[Zdt, bdf2]]
          [] f.order = 3 -> RAdd[common, RMul[Zdt, bdf3]]
          [] OTHER       -> RAdd[common, RMul[Zdt, bdf1]]

\* the pressure-derivative term with the order-1 stencil at every order
WKPgrad_partBDF1(f, dt) == RDiv[RNeg[f.p0], dt]

WKPgrad_part(f, dt) ==
    CASE f.order = 1 -> RDiv[RNeg[f.p0], dt]
      [] f.order = 2 -> RDiv[RAdd[RMul[RInt[-2], f.p0], RMul[Rat[1, 2], f.p_1]], dt]
      [] f.order = 3 -> RDiv[RSub[RAdd[RMul[RInt[-3], f.p0], RMul[Rat[3, 2], f.p_1]],
                                  RMul[Rat[1, 3], f.p_1]], dt]
      [] OTHER       -> RDiv[RNeg[f.p0], dt]

\* the denominator with an unknown order falling through to the order-2 case
WKPdenomFallThrough(f, dt) ==
    LET invRC == RDiv[ROne, RMul[f.R, f.C]]
    IN  CASE f.order = 1 -> RAdd[RDiv[ROne, dt], invRC]
          [] f.order = 3 -> RAdd[RDiv[Rat[11, 6], dt], invRC]
          [] OTHER       -> RAdd[RDiv[Rat[3, 2], dt], invRC]

WKPdenom(f, dt) ==
    LET invRC == RDiv[ROne, RMul[f.R, f.C]]
    IN  CASE f.order = 1 -> RAdd[RDiv[ROne, dt], invRC]
          [] f.order = 2 -> RAdd[RDiv[Rat[3, 2], dt], invRC]
          [] f.order = 3 -> RAdd[RDiv[Rat[11, 6], dt], invRC]
          [] OTHER       -> RAdd[RDiv[ROne, dt], invRC]

\* p1_ = (Q_source - Pgrad_part) / Pdenom
WKPressure(f, q0, dt) ==
    RDiv[RSub[WKQ_source(f, q0, dt), WKPgrad_part(f, dt)], WKPdenom(f, dt)]

\* updateCoeffs() with q_2 shifted before q_3 is taken from it
WKUpdateCoeffsShiftOrder(f, flux, dt) ==
    IF f.updated THEN f
    ELSE LET q0 == LocalSum(flux)
             p1 == WKPressure(f, q0, dt)
         IN  [f EXCEPT !.q0 = q0, !.p1 = p1, !.value = p1,
                       !.q_3 = f.q_1, !.q_2 = f.q_1, !.q_1 = q0,
                       !.p_1 = f.p0, !.p0 = p1,
                       !.updated = TRUE]

\* updateCoeffs()
WKUpdateCoeffs(f, flux, dt) ==
    IF f.updated THEN f
    ELSE LET q0 == LocalSum(flux)
             p1 == WKPressure(f, q0, dt)
         IN  [f EXCEPT !.q0 = q0, !.p1 = p1, !.value = p1,
                       !.q_3 = f.q_2, !.q_2 = f.q_1, !.q_1 = q0,
                       !.p_1 = f.p0, !.p0 = p1,
                       !.updated = TRUE]

\* write() without the q_3 entry
WKWriteNoQ3(f) ==
    [ type |-> "modularWKPressure", value |-> f.value,
      phi |-> f.phiName, order |-> f.order, R |-> f.R, C |-> f.C, Z |-> f.Z,
      p0 |-> f.p0, p_1 |-> f.p_1, q_1 |-> f.q_1, q_2 |-> f.q_2 ]

\* write(): the entries of the boundary dictionary
WKWrite(f) ==
    [ type |-> "modularWKPressure", value |-> f.value,
      phi |-> f.phiName, order |-> f.order, R |-> f.R, C |-> f.C, Z |-> f.Z,
      p0 |-> f.p0, p_1 |-> f.p_1, q_1 |-> f.q_1, q_2 |-> f.q_2, q_3 |-> f.q_3 ]

\* fvPatchField::evaluate(): update if not yet updated, then clear the flag
WKEvaluate(f, flux, dt) == [WKUpdateCoeffs(f, flux, dt) EXCEPT !.updated = FALSE]

\* boundary dictionaries of the case
WKBase == [ value |-> RInt[4], R |-> RInt[2], C |-> Rat[1, 2], Z |-> RInt[1],
            p0 |-> RInt[3], q_1 |-> RInt[1] ]
WKDicts ==
    { [order |-> o] @@ WKBase : o \in {1, 2, 3} }
    \cup { [order |-> 3, p_1 |-> RInt[1], q_2 |-> RZero, q_3 |-> RInt[2]] @@ WKBase,
           [order |-> 2, Z |-> RZero, p_1 |-> RInt[2]] @@ WKBase,
           [value |-> RInt[1], order |-> 1, R |-> RInt[1], C |-> RInt[1], Z |-> RZero,
            p0 |-> RZero, q_1 |-> RZero],
           [order |-> 4, p_1 |-> RInt[1], q_2 |-> RZero] @@ WKBase,
           [order |-> 2, couplingMode |-> "semi"] @@ WKBase }

\* the documented scenario: R 1000, C 1e-5, Z 0, order 2, p0 = p_1 = 10000,
\* q_1 = q_2 = 0, timestep 0.001, flow 5
WKScenarioDict ==
    [ value |-> RInt[10000],
      order |-> 2, R |-> RInt[1000], C |-> Rat[1, 100000], Z |-> RZero,
      p0 |-> RInt[10000], p_1 |-> RInt[10000], q_1 |-> RZero, q_2 |-> RZero ]
WKScenarioDeltaT == Rat[1, 1000]
WKScenarioPhi == <<RInt[5], RZero>>

\* dictionaries of a case restarted in steady state: the flow history is the
\* constant q and the pressure history (R + Z) q
WKSteadyParams ==
    { [R |-> RInt[2], C |-> Rat[1, 2], Z |-> RInt[1]],
      [R |-> RInt[1000], C |-> Rat[1, 100000], Z |-> RZero] }
WKSteadyDicts ==
    { [ value |-> RZero, order |-> o, R |-> p.R, C |-> p.C, Z |-> p.Z,
        p0 |-> RMul[RAdd[p.R, p.Z], q], q_1 |-> q ] :
        o \in {1, 2, 3}, p \in WKSteadyParams, q \in { LocalSum(f) : f \in PhiValues } }

\* the patch flux as seen from the process that owns the other faces
OtherProcess(f) == <<f[2], f[1]>>

Live(f) == f.status = "ok"
Apply(f, g) == IF Live(f) THEN g ELSE f

\* exit(FatalError) ends the run: nothing is called after it
Running == wk.status # "fatal" /\ vf.status # "fatal"

(***************************************************************************)
(* Host calls on the RCR boundary                                          *)
(***************************************************************************)
HostAdvance ==
    /\ Running
    /\ step < MaxSteps
    /\ \E d \in DeltaTs :
          /\ deltaT' = d
          /\ time' = RAdd[time, d]
    /\ step' = step + 1
    /\ outer' = 0
    /\ ret' = NoRet
    /\ UNCHANGED <<swVars, phi, phiFound, wkDict, wk, wkR, vfDict, vf, vfR>>

HostSetFlux ==
    /\ Running
    /\ \E f \in PhiValues : phi' = f
    /\ ret' = NoRet
    /\ UNCHANGED <<swVars, time, deltaT, phiFound, step, outer, wkDict, wk, wkR, vfDict, vf, vfR>>

WKCallUpdateCoeffs ==
    /\ Live(wk)
    /\ outer < MaxOuter
    /\ outer' = outer + 1
    /\ wk'  = WKUpdateCoeffs(wk, phi, deltaT)
    /\ wkR' = Apply(wkR, WKUpdateCoeffs(wkR, phi, deltaT))
    /\ UNCHANGED <<swVars, hostVars, wkDict, vfVars>>

WKCallEvaluate ==
    /\ Live(wk)
    /\ wk.updated \/ outer < MaxOuter
    /\ outer' = IF wk.updated THEN outer ELSE outer + 1
    /\ wk'  = WKEvaluate(wk, phi, deltaT)
    /\ wkR' = Apply(wkR, WKEvaluate(wkR, phi, deltaT))
    /\ UNCHANGED <<swVars, hostVars, wkDict, vfVars>>

WKCallCopy ==
    /\ Live(wk)
    /\ wk'  = WKCopyConstruct(wk)
    /\ wkR' = Apply(wkR, WKCopyConstruct(wkR))
    /\ UNCHANGED <<swVars, hostVars, outer, wkDict, vfVars>>

\* write the fields at the end of a timestep, then read them back
WKRestart ==
    /\ Live(wk) /\ ~wk.updated
    /\ wkR = Unbuilt
    /\ wkR' = WKDictConstruct(WKWrite(wk))
    /\ UNCHANGED <<swVars, hostVars, outer, wkDict, wk, vfVars>>

(***************************************************************************)
(* vectorFittingImpedance                                                  *)
(***************************************************************************)
\* OpenFOAM's SMALL and GREAT for double-precision scalars
SMALL == RDiv[ROne, RMul[RInt[10000000], RInt[100000000]]]
GREAT == RMul[RInt[10000000], RInt[100000000]]

\* |p*dt| below this takes the Taylor branch of the convolution term
ConvThreshold == Rat[1, 1000000]

\* default density
RhoDefault == RInt[1060]

\* gSum(p.magSf()) and patchInternalField() of the outlet patch
PatchArea == RInt[2]
PatchInternalField == RInt[7]

\* exp() of the maths library, by the rational approximant 1/(1 - x + x^2/2):
\* like exp it is 1 at 0 and lies strictly between 0 and 1 for x < 0
Exp[x \in Scalar] ==
    RDiv[ROne, RAdd[RSub[ROne, x], RMul[Rat[1, 2], RMul[x, x]]]]

Zeros(n) == [i \in 1..n |-> RZero]

VFRequired == {"directTerm", "poles", "residues"}

\* validatePoles() rejecting only poles > 0
ValidatePolesNonPositive(poles) == \A i \in 1..Len(poles) : RLe[poles[i], RZero]

\* validatePoles(): TRUE when no pole is fatal
ValidatePoles(poles) == \A i \in 1..Len(poles) : RLt[poles[i], RZero]

\* a size test that accepts lists longer than nPoles
ListSizeAtLeast(list, nPoles) == Len(list) >= nPoles

\* the size test on the poles and residues lists read from the dictionary
ListSizeOk(list, nPoles) == Len(list) = nPoles

\* the restart entry taken as read, whatever its length
RestartStateVariablesVerbatim(dict, nPoles) ==
    IF Found(dict, "stateVariables") THEN dict["stateVariables"] ELSE Zeros(nPoles)

\* stateVariables_ after the restart block of the constructor
RestartStateVariables(dict, nPoles) ==
    IF Found(dict, "stateVariables")
    THEN (IF Len(dict["stateVariables"]) # nPoles
          THEN Zeros(nPoles) ELSE dict["stateVariables"])
    ELSE Zeros(nPoles)

\* dictionary constructor
VFDictConstruct(dict) ==
    IF ~(VFRequired \subseteq DOMAIN dict) \/ ~(Found(dict, "nPoles") \/ Found(dict, "order"))
    THEN Fatal("keyword not found")
    ELSE
    LET nPoles         == IF Found(dict, "nPoles") THEN dict["nPoles"] ELSE dict["order"]
        couplingMode   == LookupOrDefault(dict, "couplingMode", "explicit")
        impedanceUnits == LookupOrDefault(dict, "impedanceUnits", "dynamic")
        stateVariables == RestartStateVariables(dict, nPoles)
    IN  IF couplingMode \notin {"explicit", "implicit"}
        THEN Fatal("couplingMode must be 'explicit' or 'implicit'")
        ELSE IF impedanceUnits \notin {"dynamic", "kinematic"}
        THEN Fatal("impedanceUnits must be 'dynamic' or 'kinematic'")
        ELSE IF ~ListSizeOk(dict["poles"], nPoles)
        THEN Fatal("poles list size must equal nPoles")
        ELSE IF ~ListSizeOk(dict["residues"], nPoles)
        THEN Fatal("residues list size must equal nPoles")
        ELSE IF ~ValidatePoles(dict["poles"])
        THEN Fatal("pole must be negative for stability")
        ELSE [ status              |-> "ok",
               phiName             |-> LookupOrDefault(dict, "phi", "phi"),
               UName               |-> LookupOrDefault(dict, "U", "U"),
               couplingMode        |-> couplingMode,
               nPoles              |-> nPoles,
               residues            |-> dict["residues"],
               poles               |-> dict["poles"],
               directTerm          |-> dict["directTerm"],
               stateVariables      |-> stateVariables,
               stateVariables_old  |-> stateVariables,
               rho                 |-> LookupOrDefault(dict, "rho", RhoDefault),
               impedanceUnits      |-> impedanceUnits,
               q0                  |-> RZero,
               q_1                 |-> LookupOrDefault(dict, "q_1", RZero),
               lastUpdateTime      |-> RNeg[GREAT],
               patchArea           |-> PatchArea,
               value               |-> LookupOrDefault(dict, "value", PatchInternalField),
               updated             |-> FALSE ]

\* copy constructor: every member copied, the base class starts not updated
VFCopyConstruct(f) == [f EXCEPT !.updated = FALSE]

\* convolutionTerm of updateCoeffs(): [exp(p dt) - 1]/p, by Taylor series
\* when |p dt| < 1e-6
UpdConvolutionTerm(p, dt) ==
    IF RLt[RMag[RMul[p, dt]], ConvThreshold]
    THEN RMul[dt, RAdd[RAdd[ROne, RMul[Rat[1, 2], RMul[p, dt]]],
                       RDiv[RMul[RMul[p, dt], RMul[p, dt]], RInt[6]]]]
    ELSE RDiv[RSub[Exp[RMul[p, dt]], ROne], p]

\* the recursive update of accumulator i for flow q0
UpdStateVariable(f, i, q0, dt) ==
    RAdd[RMul[Exp[RMul[f.poles[i], dt]], f.stateVariables[i]],
         RMul[RMul[f.residues[i], q0], UpdConvolutionTerm(f.poles[i], dt)]]

UpdStateVariables(f, q0, dt) ==
    [i \in 1..Len(f.poles) |-> UpdStateVariable(f, i, q0, dt)]

\* P += z[i] over the poles in order, from P
AccumulateP[P \in Scalar, z \in Seq(Scalar)] ==
    IF z = << >> THEN P ELSE AccumulateP[RAdd[P, Head(z)], Tail(z)]

\* P = d Q + sum of the updated accumulators (in the units of the parameters)
UpdPressure(f, z, q0) == AccumulateP[RMul[f.directTerm, q0], z]

\* the conversion done with a product instead of a quotient
UpdBoundaryValueTimesRho(f, P) ==
    IF f.impedanceUnits = "kinematic" THEN P ELSE RMul[P, f.rho]

\* the value set on the patch: P, or P/rho for dynamic units
UpdBoundaryValue(f, P) ==
    IF f.impedanceUnits = "kinematic" THEN P ELSE RDiv[P, f.rho]

\* the admitted part of updateCoeffs() leaving lastUpdateTime_ as it was
UpdAdmittedKeepsToken(f, t, dt, flux) ==
    LET q0 == GSum(flux)
        z  == UpdStateVariables(f, q0, dt)
    IN  [f EXCEPT !.q0 = q0,
                  !.stateVariables = z,
                  !.value = UpdBoundaryValue(f, UpdPressure(f, z, q0)),
                  !.stateVariables_old = z,
                  !.q_1 = q0,
                  !.updated = TRUE]

\* the admitted part of updateCoeffs() leaving the snapshot of the step before
UpdAdmittedStaleSnapshot(f, t, dt, flux) ==
    LET q0 == GSum(flux)
        z  == UpdStateVariables(f, q0, dt)
    IN  [f EXCEPT !.lastUpdateTime = t,
                  !.q0 = q0,
                  !.stateVariables = z,
                  !.value = UpdBoundaryValue(f, UpdPressure(f, z, q0)),
                  !.q_1 = q0,
                  !.updated = TRUE]

\* the admitted part of updateCoeffs(), from reading the flux on
UpdAdmitted(f, t, dt, flux) ==
    LET q0 == GSum(flux)
        z  == UpdStateVariables(f, q0, dt)
    IN  [f EXCEPT !.lastUpdateTime = t,
                  !.q0 = q0,
                  !.stateVariables = z,
                  !.value = UpdBoundaryValue(f, UpdPressure(f, z, q0)),
                  !.stateVariables_old = z,
                  !.q_1 = q0,
                  !.updated = TRUE]

\* the test with its tolerance dropped: |t - lastUpdateTime_| < 0
GateRejectsZeroTol(f, t) == RLt[RMag[RSub[t, f.lastUpdateTime]], RZero]

\* the once-per-timestep test on lastUpdateTime_
GateRejects(f, t) == RLt[RMag[RSub[t, f.lastUpdateTime]], SMALL]

\* updateCoeffs()
VFUpdateCoeffs(f, t, dt, flux, found) ==
    IF f.updated THEN f
    ELSE IF GateRejects(f, t) THEN [f EXCEPT !.updated = TRUE]
    ELSE IF ~found THEN [f EXCEPT !.lastUpdateTime = t, !.status = "fatal"]
    ELSE UpdAdmitted(f, t, dt, flux)

\* fvPatchField::evaluate(): update if not yet updated, then clear the flag
VFEvaluate(f, t, dt, flux, found) ==
    [VFUpdateCoeffs(f, t, dt, flux, found) EXCEPT !.updated = FALSE]

\* the convolution term without its Taylor branch
ZeffConvolutionTermNoTaylor(p, dt) == RDiv[RSub[Exp[RMul[p, dt]], ROne], p]

\* convolutionTerm of calculateEffectiveImpedance()
ZeffConvolutionTerm(p, dt) ==
    IF RLt[RMag[RMul[p, dt]], ConvThreshold]
    THEN RMul[dt, RAdd[RAdd[ROne, RMul[Rat[1, 2], RMul[p, dt]]],
                       RDiv[RMul[RMul[p, dt], RMul[p, dt]], RInt[6]]]]
    ELSE RDiv[RSub[Exp[RMul[p, dt]], ROne], p]

ZeffTerms(f, dt) ==
    [i \in 1..Len(f.poles) |-> RMul[f.residues[i], ZeffConvolutionTerm(f.poles[i], dt)]]

\* calculateEffectiveImpedance()
CalculateEffectiveImpedance(f, dt) ==
    LET Z_eff_dyn == AccumulateP[f.directTerm, ZeffTerms(f, dt)]
    IN  IF f.impedanceUnits = "kinematic" THEN Z_eff_dyn ELSE RDiv[Z_eff_dyn, f.rho]

\* fixedValue base class: zero internal coefficients, the patch value as
\* boundary coefficients
BaseValueInternalCoeffs(f, w) == RZero
BaseValueBoundaryCoeffs(f, w) == f.value

\* valueInternalCoeffs(w), for one face of weight w
ValueInternalCoeffs(f, dt, w) ==
    IF f.couplingMode = "implicit"
    THEN RSub[BaseValueInternalCoeffs(f, w),
              RMul[RDiv[CalculateEffectiveImpedance(f, dt), RAdd[f.patchArea, SMALL]], w]]
    ELSE BaseValueInternalCoeffs(f, w)

HistoricalTerms(f, dt) ==
    [i \in 1..Len(f.poles) |-> RMul[Exp[RMul[f.poles[i], dt]], f.stateVariables_old[i]]]

\* historicalSource of valueBoundaryCoeffs(), in the units of the parameters
HistoricalSource(f, dt) == AccumulateP[RZero, HistoricalTerms(f, dt)]

\* ... and as added to the boundary source, before distribution over the patch
HistoricalSourceKin(f, dt) ==
    IF f.impedanceUnits = "kinematic"
    THEN HistoricalSource(f, dt) ELSE RDiv[HistoricalSource(f, dt), f.rho]

\* valueBoundaryCoeffs(w) adding the historical source in either mode
ValueBoundaryCoeffsAnyMode(f, dt, w) ==
    RAdd[BaseValueBoundaryCoeffs(f, w),
         RDiv[RMul[HistoricalSourceKin(f, dt), w], RAdd[f.patchArea, SMALL]]]

\* valueBoundaryCoeffs(w), for one face of weight w
ValueBoundaryCoeffs(f, dt, w) ==
    IF f.couplingMode = "implicit"
    THEN RAdd[BaseValueBoundaryCoeffs(f, w),
              RDiv[RMul[HistoricalSourceKin(f, dt), w], RAdd[f.patchArea, SMALL]]]
    ELSE BaseValueBoundaryCoeffs(f, w)

\* a coefficient call that commits the decayed snapshot it computes
AfterCoeffsCallDecays(f, dt) ==
    [f EXCEPT !.stateVariables_old = HistoricalTerms(f, dt)]

\* calculateEffectiveImpedance, valueInternalCoeffs and valueBoundaryCoeffs are
\* const members: the instance after a call made with timestep dt
AfterCoeffsCall(f, dt) == f

\* write(): the entries of the boundary dictionary
VFWrite(f) ==
    [ type |-> "vectorFittingImpedance", value |-> f.value,
      phi |-> f.phiName, U |-> f.UName, couplingMode |-> f.couplingMode,
      nPoles |-> f.nPoles, directTerm |-> f.directTerm,
      poles |-> f.poles, residues |-> f.residues,
      rho |-> f.rho, impedanceUnits |-> f.impedanceUnits,
      q_1 |-> f.q_1, stateVariables |-> f.stateVariables ]

\* boundary dictionaries of the case: valid ones and misconfigured ones
VFBase == [ nPoles |-> 2, poles |-> <<RInt[-1], RInt[-100]>>,
            residues |-> <<RInt[2], RInt[3]>>, directTerm |-> Rat[1, 2] ]
VFGoodDicts ==
    { [couplingMode |-> "implicit", rho |-> RInt[2]] @@ VFBase,
      [impedanceUnits |-> "kinematic", stateVariables |-> <<RInt[1], RInt[-1]>>,
       q_1 |-> RInt[1], value |-> RInt[3]] @@ VFBase,
      [order |-> 1, poles |-> <<RInt[-3]>>, residues |-> <<RInt[1]>>,
       directTerm |-> RZero, couplingMode |-> "implicit",
       impedanceUnits |-> "kinematic", stateVariables |-> <<RInt[1], RInt[2]>>] }
VFBadDicts ==
    { [poles |-> <<RInt[-1], RZero>>] @@ VFBase,
      [poles |-> <<RInt[1], RInt[-1]>>, couplingMode |-> "implicit"] @@ VFBase,
      [poles |-> <<RInt[-1]>>] @@ VFBase,
      [poles |-> <<RInt[-1], RInt[-2], RInt[-3]>>] @@ VFBase,
      [residues |-> <<RInt[2]>>] @@ VFBase,
      [residues |-> <<RInt[2], RInt[3], RInt[4]>>, stateVariables |-> <<RZero, RZero>>] @@ VFBase,
      [couplingMode |-> "semi"] @@ VFBase,
      [impedanceUnits |-> "cgs"] @@ VFBase }
VFDicts == VFGoodDicts \cup VFBadDicts

\* face weights handed to the matrix-coefficient calls
WValues == { ROne, Rat[1, 2] }

(***************************************************************************)
(* Host calls on the pole-residue boundary                                 *)
(***************************************************************************)
VFCallUpdateCoeffs ==
    /\ Live(vf)
    /\ outer < MaxOuter
    /\ outer' = outer + 1
    /\ vf'  = VFUpdateCoeffs(vf, time, deltaT, phi, phiFound)
    /\ vfR' = Apply(vfR, VFUpdateCoeffs(vfR, time, deltaT, phi, phiFound))
    /\ ret' = NoRet
    /\ UNCHANGED <<swVars, hostVars, wkVars, vfDict>>

VFCallEvaluate ==
    /\ Live(vf)
    /\ vf.updated \/ outer < MaxOuter
    /\ outer' = IF vf.updated THEN outer ELSE outer + 1
    /\ vf'  = VFEvaluate(vf, time, deltaT, phi, phiFound)
    /\ vfR' = Apply(vfR, VFEvaluate(vfR, time, deltaT, phi, phiFound))
    /\ ret' = NoRet
    /\ UNCHANGED <<swVars, hostVars, wkVars, vfDict>>

VFCallCopy ==
    /\ Live(vf)
    /\ vf'  = VFCopyConstruct(vf)
    /\ vfR' = Apply(vfR, VFCopyConstruct(vfR))
    /\ ret' = NoRet
    /\ UNCHANGED <<swVars, hostVars, outer, wkVars, vfDict>>

VFCallCalculateEffectiveImpedance ==
    /\ Live(vf)
    /\ ret' = [fn |-> "calculateEffectiveImpedance", dt |-> deltaT, w |-> ROne,
               val |-> CalculateEffectiveImpedance(vf, deltaT)]
    /\ vf' = AfterCoeffsCall(vf, deltaT)
    /\ UNCHANGED <<swVars, hostVars, outer, wkVars, vfDict, vfR>>

VFCallValueInternalCoeffs ==
    /\ Live(vf)
    /\ \E w \in WValues :
          ret' = [fn |-> "valueInternalCoeffs", dt |-> deltaT, w |-> w,
                  val |-> ValueInternalCoeffs(vf, deltaT, w)]
    /\ vf' = AfterCoeffsCall(vf, deltaT)
    /\ UNCHANGED <<swVars, hostVars, outer, wkVars, vfDict, vfR>>

VFCallValueBoundaryCoeffs ==
    /\ Live(vf)
    /\ \E w \in WValues :
          ret' = [fn |-> "valueBoundaryCoeffs", dt |-> deltaT, w |-> w,
                  val |-> ValueBoundaryCoeffs(vf, deltaT, w)]
    /\ vf' = AfterCoeffsCall(vf, deltaT)
    /\ UNCHANGED <<swVars, hostVars, outer, wkVars, vfDict, vfR>>

\* write the fields at the end of a timestep, then read them back
VFRestart ==
    /\ Live(vf) /\ ~vf.updated
    /\ vfR = Unbuilt
    /\ vfR' = VFDictConstruct(VFWrite(vf))
    /\ ret' = NoRet
    /\ UNCHANGED <<swVars, hostVars, outer, wkVars, vfDict, vf>>

(***************************************************************************)
(* stabilizedWindkesselVelocity: the two-parameter build and the           *)
(* single-beta build.  The valueFraction tensor of a face is               *)
(* n (nf (x) nf) + t (I - nf (x) nf): it is held by its coefficient n on   *)
(* the normal projector and t on the tangential projector, which are its   *)
(* eigenvalues along the normal and along every tangent.                   *)
(***************************************************************************)
RMin[x \in Scalar, y \in Scalar] == IF RLt[y, x] THEN y ELSE x
RMax[x \in Scalar, y \in Scalar] == IF RLt[x, y] THEN y ELSE x

\* pos0(x): 1 where x >= 0;  neg(x): 1 where x < 0
Pos0[x \in Scalar] == IF RLe[RZero, x] THEN ROne ELSE RZero
Neg[x \in Scalar] == IF RLt[x, RZero] THEN ROne ELSE RZero

ZeroTensor == [n |-> RZero, t |-> RZero]
ZeroTensors(flux) == [i \in 1..Len(flux) |-> ZeroTensor]

\* a face vector, held like the tensor by its normal component n and its
\* tangential component t
ZeroVector == [n |-> RZero, t |-> RZero]
ZeroVectors(field) == [i \in 1..Len(field) |-> ZeroVector]

\* patchInternalField() of the velocity outlet
SWPatchInternalField == << [n |-> RInt[2], t |-> RInt[1]], [n |-> RInt[-1], t |-> RInt[3]] >>

\* transform(T, v) for a tensor n (nf (x) nf) + t (I - nf (x) nf)
Transform(T, v) == [n |-> RMul[T.n, v.n], t |-> RMul[T.t, v.t]]

\* I - T
Complement(T) == [n |-> RSub[ROne, T.n], t |-> RSub[ROne, T.t]]

\* the patch values directionMixedFvPatchField::evaluate() assigns:
\* transform(valueFraction, refValue)
\*   + transform(I - valueFraction, patchInternalField + refGrad/deltaCoeffs)
DMPatchValues(f) ==
    [i \in 1..Len(f.valueFraction) |->
        LET normalValue == Transform(f.valueFraction[i], f.refValue[i])
            gradValue   == [n |-> RAdd[SWPatchInternalField[i].n, f.refGrad[i].n],
                            t |-> RAdd[SWPatchInternalField[i].t, f.refGrad[i].t]]
            transformGradValue == Transform(Complement(f.valueFraction[i]), gradValue)
        IN  [n |-> RAdd[normalValue.n, transformGradValue.n],
             t |-> RAdd[normalValue.t, transformGradValue.t]]]

\* dictionary constructor, two-parameter build
SWDictConstruct(dict) ==
    [ status              |-> "ok",
      build               |-> "twoParameter",
      phiName             |-> LookupOrDefault(dict, "phi", "phi"),
      betaT               |-> IF Found(dict, "betaT") THEN dict["betaT"]
                              ELSE LookupOrDefault(dict, "beta", Rat[1, 5]),
      betaN               |-> LookupOrDefault(dict, "betaN", RZero),
      enableStabilization |-> LookupOrDefault(dict, "enableStabilization", TRUE),
      dampingFactor       |-> LookupOrDefault(dict, "dampingFactor", ROne),
      rho                 |-> LookupOrDefault(dict, "rho", RhoDefault),
      value               |-> dict["value"],
      refValue            |-> ZeroVectors(dict["value"]),
      refGrad             |-> ZeroVectors(dict["value"]),
      valueFraction       |-> ZeroTensors(dict["value"]),
      updated             |-> FALSE ]

\* dictionary constructor, single-beta build
SBDictConstruct(dict) ==
    [ status              |-> "ok",
      build               |-> "singleBeta",
      phiName             |-> LookupOrDefault(dict, "phi", "phi"),
      beta                |-> LookupOrDefault(dict, "beta", Rat[1, 2]),
      enableStabilization |-> LookupOrDefault(dict, "enableStabilization", TRUE),
      dampingFactor       |-> LookupOrDefault(dict, "dampingFactor", ROne),
      rho                 |-> LookupOrDefault(dict, "rho", RhoDefault),
      value               |-> dict["value"],
      refValue            |-> ZeroVectors(dict["value"]),
      refGrad             |-> ZeroVectors(dict["value"]),
      valueFraction       |-> ZeroTensors(dict["value"]),
      updated             |-> FALSE ]

\* copy constructors: members and the directionMixed fields copied
SWCopyConstruct(f) == [f EXCEPT !.updated = FALSE]

\* clamped effective coefficients of the two-parameter build
EffBetaT(f) == RMin[RMax[RMul[f.betaT, f.dampingFactor], RZero], ROne]
EffBetaN(f) == RMin[RMax[RMul[f.betaN, f.dampingFactor], RZero], ROne]

\* valueFraction of one face, two-parameter build
SWFaceTensor(f, phip) ==
    LET backflowMask == Pos0[RNeg[phip]]
    IN  [ n |-> RMul[backflowMask, EffBetaN(f)],
          t |-> RMul[backflowMask, EffBetaT(f)] ]

\* effectiveDamping of the single-beta build
EffectiveDamping(f) == RMul[f.beta, f.dampingFactor]

\* valueFraction of one face, single-beta build
SBFaceTensor(f, phip) ==
    [ n |-> RZero, t |-> RMul[EffectiveDamping(f), Neg[phip]] ]

\* the tensor field of the enabled branch assigned whatever the switch says
SWValueFractionAlwaysOn(f, flux) == [i \in 1..Len(flux) |-> SWFaceTensor(f, flux[i])]

\* the tensor field the enabled/disabled branch assigns
SWValueFraction(f, flux) ==
    IF ~f.enableStabilization THEN ZeroTensors(flux)
    ELSE [i \in 1..Len(flux) |-> SWFaceTensor(f, flux[i])]

SBValueFraction(f, flux) ==
    IF ~f.enableStabilization THEN ZeroTensors(flux)
    ELSE [i \in 1..Len(flux) |-> SBFaceTensor(f, flux[i])]

\* updateCoeffs() assigning with += instead of =
SWUpdateCoeffsAccumulates(f, flux) ==
    IF f.updated THEN f
    ELSE [f EXCEPT !.valueFraction =
                      [i \in 1..Len(flux) |->
                          [ n |-> RAdd[f.valueFraction[i].n, SWValueFraction(f, flux)[i].n],
                            t |-> RAdd[f.valueFraction[i].t, SWValueFraction(f, flux)[i].t] ]],
                   !.updated = TRUE]

\* updateCoeffs(), two-parameter build: the base class sets the updated flag
SWUpdateCoeffs(f, flux) ==
    IF f.updated THEN f
    ELSE [f EXCEPT !.valueFraction = SWValueFraction(f, flux), !.updated = TRUE]

\* updateCoeffs(), single-beta build: ends with directionMixed's evaluate(),
\* which assigns the patch values and clears the flag
SBUpdateCoeffs(f, flux) ==
    IF f.updated THEN f
    ELSE LET g == [f EXCEPT !.valueFraction = SBValueFraction(f, flux)]
         IN  [g EXCEPT !.value = DMPatchValues(g), !.updated = FALSE]

\* the update routine of the build the instance was compiled from
StabUpdateCoeffs(f, flux) ==
    IF f.build = "twoParameter" THEN SWUpdateCoeffs(f, flux) ELSE SBUpdateCoeffs(f, flux)

\* directionMixedFvPatchField::evaluate(): update if needed, assign the patch
\* values, clear the flag
StabEvaluate(f, flux) ==
    LET g == StabUpdateCoeffs(f, flux)
    IN  [g EXCEPT !.value = DMPatchValues(g), !.updated = FALSE]

\* boundary dictionaries of the velocity outlet (value: one vector per face)
SWValue == << [n |-> RInt[1], t |-> RInt[1]], [n |-> RInt[-1], t |-> RInt[2]] >>
SWDicts ==
    { [value |-> SWValue, betaT |-> Rat[1, 2]],
      [value |-> SWValue, betaT |-> RInt[3], betaN |-> Rat[1, 2], beta |-> RInt[3],
       dampingFactor |-> Rat[1, 2]],
      [value |-> SWValue, beta |-> Rat[4, 5], betaN |-> ROne, dampingFactor |-> RInt[-1]],
      [value |-> SWValue, betaT |-> ROne, beta |-> ROne, enableStabilization |-> FALSE],
      [value |-> SWValue] }
SWBuilds == {"twoParameter", "singleBeta"}

\* VSMALL, 1e-300: the smallest flux magnitude above rounding to zero
VSMALL ==
    LET s2  == RMul[SMALL, SMALL]
        s4  == RMul[s2, s2]
        s8  == RMul[s4, s4]
        s16 == RMul[s8, s8]
    IN  RMul[s16, s4]

\* face fluxes of a patch with no net flow through it: floating noise around 0
NoiseFluxes == { <<VSMALL, RNeg[VSMALL]>>, <<RNeg[VSMALL], VSMALL>> }

StabConstruct(build, dict) ==
    IF build = "twoParameter" THEN SWDictConstruct(dict) ELSE SBDictConstruct(dict)

(***************************************************************************)
(* Host calls on the stabilizer                                            *)
(***************************************************************************)
SWCallUpdateCoeffs ==
    /\ Live(sw)
    /\ outer < MaxOuter
    /\ outer' = outer + 1
    /\ sw' = StabUpdateCoeffs(sw, phi)
    /\ UNCHANGED <<hostVars, wkVars, vfVars, swDict>>

\* between two outer iterations the flux of a stagnant patch is noise
HostFluxNoise ==
    /\ Live(sw)
    /\ \E f \in NoiseFluxes : phi' = f
    /\ UNCHANGED <<time, deltaT, phiFound, step, outer, wkVars, vfVars, swVars>>

SWCallEvaluate ==
    /\ Live(sw)
    /\ sw' = StabEvaluate(sw, phi)
    /\ UNCHANGED <<hostVars, outer, wkVars, vfVars, swDict>>

SWCallCopy ==
    /\ Live(sw)
    /\ sw' = SWCopyConstruct(sw)
    /\ UNCHANGED <<hostVars, outer, wkVars, vfVars, swDict>>

InitHost ==
    /\ time = RZero
    /\ deltaT \in DeltaTs
    /\ phi \in PhiValues
    /\ phiFound \in BOOLEAN
    /\ step = 0
    /\ outer = 0
    /\ ret = NoRet

InitWK ==
    /\ InitHost
    /\ phiFound = TRUE
    /\ wkDict \in WKDicts
    /\ wk = WKDictConstruct(wkDict)
    /\ wkR = Unbuilt
    /\ vfDict = NoDict /\ vf = Unbuilt /\ vfR = Unbuilt
    /\ swDict = NoDict /\ sw = Unbuilt

NextWK ==
    \/ HostAdvance
    \/ HostSetFlux
    \/ WKCallUpdateCoeffs
    \/ WKCallEvaluate
    \/ WKCallCopy
    \/ WKRestart

SpecWK == InitWK /\ [][NextWK]_vars

\* the RCR boundary started in the documented scenario
InitWKScenario ==
    /\ time = RZero
    /\ deltaT = WKScenarioDeltaT
    /\ phi \in {WKScenarioPhi} \cup PhiValues
    /\ phiFound = TRUE
    /\ step = 0
    /\ outer = 0
    /\ ret = NoRet
    /\ wkDict = WKScenarioDict
    /\ wk = WKDictConstruct(wkDict)
    /\ wkR = Unbuilt
    /\ vfDict = NoDict
    /\ vf = Unbuilt
    /\ vfR = Unbuilt
    /\ swDict = NoDict
    /\ sw = Unbuilt

SpecWKScenario == InitWKScenario /\ [][NextWK]_vars

\* the RCR boundary started from a steady-state history
InitWKSteady ==
    /\ InitHost
    /\ phiFound = TRUE
    /\ wkDict \in WKSteadyDicts
    /\ wk = WKDictConstruct(wkDict)
    /\ wkR = Unbuilt
    /\ vfDict = NoDict /\ vf = Unbuilt /\ vfR = Unbuilt
    /\ swDict = NoDict /\ sw = Unbuilt

SpecWKSteady == InitWKSteady /\ [][NextWK]_vars

InitVF ==
    /\ InitHost
    /\ vfDict \in VFDicts
    /\ vf = VFDictConstruct(vfDict)
    /\ vfR = Unbuilt
    /\ wkDict = NoDict /\ wk = Unbuilt /\ wkR = Unbuilt
    /\ swDict = NoDict /\ sw = Unbuilt

NextVF ==
    \/ HostAdvance
    \/ HostSetFlux
    \/ VFCallUpdateCoeffs
    \/ VFCallEvaluate
    \/ VFCallCopy
    \/ VFCallCalculateEffectiveImpedance
    \/ VFCallValueInternalCoeffs
    \/ VFCallValueBoundaryCoeffs

SpecVF == InitVF /\ [][NextVF]_vars

NextVFRestart ==
    \/ HostAdvance
    \/ HostSetFlux
    \/ VFCallUpdateCoeffs
    \/ VFCallEvaluate
    \/ VFCallCopy
    \/ VFRestart

SpecVFRestart == InitVF /\ [][NextVFRestart]_vars

InitSW ==
    /\ InitHost
    /\ phiFound = TRUE
    /\ swDict \in SWDicts
    /\ \E build \in SWBuilds : sw = StabConstruct(build, swDict)
    /\ wkDict = NoDict /\ wk = Unbuilt /\ wkR = Unbuilt
    /\ vfDict = NoDict /\ vf = Unbuilt /\ vfR = Unbuilt

NextSW ==
    \/ HostAdvance
    \/ HostSetFlux
    \/ HostFluxNoise
    \/ SWCallUpdateCoeffs
    \/ SWCallEvaluate
    \/ SWCallCopy

SpecSW == InitSW /\ [][NextSW]_vars

(***************************************************************************)
(* Properties                                                              *)
(***************************************************************************)
\* the time-integrated state of a pole-residue instance and its output
VFFrame(f) ==
    <<f.stateVariables, f.stateVariables_old, f.q0, f.q_1, f.lastUpdateTime, f.value>>

\* the histories of an RCR instance and its output
WKFrame(f) == <<f.q_1, f.q_2, f.q_3, f.p0, f.p_1, f.value>>

\* the boundary value the forward update of f would emit for flow Q
ForwardValue(f, Q, dt) ==
    UpdBoundaryValue(f, UpdPressure(f, UpdStateVariables(f, Q, dt), Q))

TaylorBranch(p, dt) == RLt[RMag[RMul[p, dt]], ConvThreshold]

\* C1: once an update was admitted at the current simulation time, no later
\* call at that time (updateCoeffs or evaluate, whatever the flux has become)
\* changes stateVariables, the snapshot, q0, q_1, the gate token or the
\* boundary pressure.
C1_SameTimeIdempotent ==
    [][ (Live(vf) /\ REq[vf.lastUpdateTime, time] /\ time' = time)
            => VFFrame(vf') = VFFrame(vf) ]_vars

\* a second call was made at the time of an admitted update, with the flux
\* changed since the admitted call
C1_Witness ==
    /\ Live(vf) /\ vf.updated /\ outer >= 2
    /\ REq[vf.lastUpdateTime, time]
    /\ ~REq[GSum(phi), vf.q0]

\* C2: after a first updateCoeffs call in a timestep, later calls in the same
\* timestep leave the RCR histories q_1, q_2, q_3, p0, p_1 and the boundary
\* pressure unchanged.
C2_RCRShiftOnce ==
    [][ (Live(wk) /\ outer >= 1 /\ time' = time) => WKFrame(wk') = WKFrame(wk) ]_vars

\* C3: an RCR instance constructed from what write() wrote emits, after any
\* later sequence of calls, the pressure of the uninterrupted instance (and
\* holds the same histories).
C3_RCRRestartRoundTrip ==
    Live(wkR) =>
        /\ REq[wkR.value, wk.value]
        /\ REq[wkR.p0, wk.p0] /\ REq[wkR.p_1, wk.p_1]
        /\ REq[wkR.q_1, wk.q_1] /\ REq[wkR.q_2, wk.q_2] /\ REq[wkR.q_3, wk.q_3]

\* the restarted instance has been updated in a later timestep, at order 3
C3_Witness ==
    /\ Live(wkR) /\ wkR.updated /\ step >= 1
    /\ wkR.order = 3
    /\ ~REq[wkR.q_3, wkR.q_2]
    /\ ~REq[wkR.value, wkR.p_1]

\* C4: a pole-residue instance constructed from what write() wrote emits the
\* same pressure and holds the same stateVariables as the uninterrupted
\* instance after any later sequence of update calls.
C4_VFRestartRoundTrip ==
    (Live(vfR) /\ Live(vf)) =>
        /\ REq[vfR.value, vf.value]
        /\ RSeqEq(vfR.stateVariables, vf.stateVariables)

\* a flow other than the ones the patch flux takes
OtherFlow == Rat[1, 3]

\* C5: for the accumulators of every reachable state, the current timestep
\* and two flows (the flux now on the patch and another one), the pressures
\* the forward update emits differ by Z_eff (Q1 - Q2), Z_eff being what
\* calculateEffectiveImpedance returns.
C5_SensitivityConsistent ==
    Live(vf) =>
        REq[ RSub[ForwardValue(vf, GSum(phi), deltaT), ForwardValue(vf, OtherFlow, deltaT)],
             RMul[CalculateEffectiveImpedance(vf, deltaT), RSub[GSum(phi), OtherFlow]] ]

\* dynamic units, non-zero accumulators left by an update, one pole on each
\* side of the Taylor threshold
C5_Witness ==
    /\ Live(vf) /\ vf.updated /\ REq[vf.lastUpdateTime, time]
    /\ vf.impedanceUnits = "dynamic"
    /\ \E i \in 1..Len(vf.poles) : TaylorBranch(vf.poles[i], deltaT)
    /\ \E i \in 1..Len(vf.poles) : ~TaylorBranch(vf.poles[i], deltaT)
    /\ \A i \in 1..Len(vf.poles) : ~REq[vf.stateVariables[i], RZero]

\* the BDF leading coefficient
Alpha(order) == CASE order = 2 -> Rat[3, 2] [] order = 3 -> Rat[11, 6] [] OTHER -> ROne

\* C6: the sensitivity of the RCR pressure to the current flow, histories
\* fixed, is Z + R C alpha / dt.
C6_RCREffectiveImpedance ==
    (Live(wk) /\ wk.order \in {1, 2, 3}) =>
        REq[ RSub[WKPressure(wk, RAdd[LocalSum(phi), ROne], deltaT),
                  WKPressure(wk, LocalSum(phi), deltaT)],
             RAdd[wk.Z, RDiv[RMul[RMul[wk.R, wk.C], Alpha(wk.order)], deltaT]] ]

\* C7: in implicit mode, once this timestep's update was admitted with flow
\* q0, the boundary pressure is Z_eff q0 plus the historical source computed
\* by valueBoundaryCoeffs.
C7_ImplicitDecomposition ==
    (Live(vf) /\ vf.couplingMode = "implicit" /\ REq[vf.lastUpdateTime, time]) =>
        REq[ vf.value,
             RAdd[RMul[CalculateEffectiveImpedance(vf, deltaT), vf.q0],
                  HistoricalSourceKin(vf, deltaT)] ]

\* C8: a call of calculateEffectiveImpedance, valueInternalCoeffs or
\* valueBoundaryCoeffs leaves stateVariables, the snapshot, q0, q_1, the gate
\* token and the boundary pressure unchanged, and returns what the previous
\* call of the same function with the same timestep and weight returned.
C8_AdapterPure ==
    [][ ret'.fn # "none" =>
          /\ VFFrame(vf') = VFFrame(vf)
          /\ (ret.fn = ret'.fn /\ ret.dt = ret'.dt /\ ret.w = ret'.w)
                => REq[ret'.val, ret.val] ]_vars

\* valueBoundaryCoeffs has returned in implicit mode over non-zero accumulators
C8_Witness ==
    /\ Live(vf) /\ vf.couplingMode = "implicit"
    /\ ret.fn = "valueBoundaryCoeffs"
    /\ \E i \in 1..Len(vf.poles) : ~REq[vf.stateVariables_old[i], RZero]
    /\ ~REq[ret.val, vf.value]

PolesOk(f) ==
    Live(f) =>
        /\ \A i \in 1..Len(f.poles) : RLt[f.poles[i], RZero]
        /\ Len(f.poles) = f.nPoles
        /\ Len(f.residues) = f.nPoles
        /\ Len(f.stateVariables) = f.nPoles
        /\ Len(f.stateVariables_old) = f.nPoles

DictHasBadPole == \E i \in 1..Len(vfDict["poles"]) : ~RLt[vfDict["poles"][i], RZero]

\* C9: construction from a dictionary with a pole >= 0 is fatal, and every
\* live instance (after updates, copies and restarts) has only negative poles
\* and pole, residue and accumulator lists of length nPoles.
C9_PoleStability ==
    /\ DictHasBadPole => vf.status = "fatal"
    /\ PolesOk(vf)
    /\ PolesOk(vfR)

\* a restarted instance updated in a later timestep
C9_Witness ==
    /\ Live(vf) /\ Live(vfR) /\ step >= 1
    /\ REq[vfR.lastUpdateTime, time]

DictNPoles == IF Found(vfDict, "nPoles") THEN vfDict["nPoles"] ELSE vfDict["order"]

DictSizeMismatch ==
    \/ Len(vfDict["poles"]) # DictNPoles
    \/ Len(vfDict["residues"]) # DictNPoles

\* C10: construction from a dictionary whose poles or residues list has a
\* length other than nPoles is fatal, and no update or timestep follows.
C10_SizeMismatchFatal ==
    DictSizeMismatch =>
        /\ vf.status = "fatal"
        /\ step = 0 /\ outer = 0
        /\ vfR = Unbuilt

\* the residues list alone has the wrong length, and construction ended fatal
C10_Witness ==
    /\ Len(vfDict["poles"]) = DictNPoles
    /\ Len(vfDict["residues"]) > DictNPoles
    /\ vf.status = "fatal"

InvalidCouplingMode(dict) ==
    Found(dict, "couplingMode") /\ dict["couplingMode"] \notin {"explicit", "implicit"}

InvalidImpedanceUnits(dict) ==
    Found(dict, "impedanceUnits") /\ dict["impedanceUnits"] \notin {"dynamic", "kinematic"}

\* C11: construction of either pressure boundary from a dictionary whose
\* couplingMode is neither explicit nor implicit is fatal, and so is
\* construction of the pole-residue boundary from a dictionary whose
\* impedanceUnits is neither dynamic nor kinematic.
C11_InvalidModeFatal ==
    /\ InvalidCouplingMode(wkDict) => wk.status = "fatal"
    /\ InvalidCouplingMode(vfDict) => vf.status = "fatal"
    /\ InvalidImpedanceUnits(vfDict) => vf.status = "fatal"

\* order values the switch has no case for
InvalidOrders == {-1, 0, 4}

\* C13: an RCR dictionary with an order outside {1, 2, 3} constructs, and from
\* every reachable state an update at such an order leaves the pressure and
\* the histories an update at order 1 leaves.
C13_InvalidOrderIsOrder1 ==
    /\ (wkDict["order"] \notin {1, 2, 3}) => Live(wk)
    /\ Live(wk) =>
          \A o \in InvalidOrders :
              WKFrame(WKUpdateCoeffs([wk EXCEPT !.order = o, !.updated = FALSE], phi, deltaT))
                = WKFrame(WKUpdateCoeffs([wk EXCEPT !.order = 1, !.updated = FALSE], phi, deltaT))

\* an instance configured with order 4 has been updated in a second timestep
C13_Witness ==
    /\ Live(wk) /\ wk.order = 4 /\ wk.updated /\ step >= 1
    /\ ~REq[wk.value, wk.p_1]

\* the order-2 formula of the scenario, written out on its numbers
WKScenarioByHand ==
    LET Q   == RInt[5]
        R   == RInt[1000]
        C   == Rat[1, 100000]
        Z   == RZero
        dt  == Rat[1, 1000]
        p0  == RInt[10000]
        p_1 == RInt[10000]
        num == RSub[ RAdd[ RMul[RDiv[Q, C], RAdd[ROne, RDiv[Z, R]]],
                           RMul[RDiv[Z, dt], RMul[Rat[3, 2], Q]] ],
                     RDiv[RAdd[RMul[RInt[-2], p0], RMul[Rat[1, 2], p_1]], dt] ]
        den == RAdd[RDiv[Rat[3, 2], dt], RDiv[ROne, RMul[R, C]]]
    IN  RDiv[num, den]

\* C14: in the documented scenario the first update, made with flow 5, emits
\* the pressure of the order-2 BDF formula, 9687.5.
C14_RCRScenario ==
    ( /\ wkDict = WKScenarioDict /\ Live(wk)
      /\ step = 0 /\ outer = 1
      /\ REq[wk.q_1, RInt[5]] )
    => /\ REq[wk.value, Rat[19375, 2]]
       /\ REq[wk.value, WKScenarioByHand]

\* the first update of the scenario has been made with flow 5
C14_Witness ==
    /\ wkDict = WKScenarioDict /\ Live(wk) /\ wk.updated
    /\ step = 0 /\ outer = 1
    /\ REq[deltaT, WKScenarioDeltaT]
    /\ REq[wk.q_1, RInt[5]]

\* C15: an accepted RCR update with flow Q and computed pressure P leaves
\* q_3' = q_2, q_2' = q_1, q_1' = Q, p_1' = p0, p0' = P, boundary value P,
\* and order, R, C, Z and the flux-field name unchanged.
C15_RCRHistoryShift ==
    [][ (Live(wk) /\ ~wk.updated /\ outer' = outer + 1) =>
          LET Q == LocalSum(phi)
              P == WKPressure(wk, Q, deltaT)
          IN  /\ wk'.q_3 = wk.q_2
              /\ wk'.q_2 = wk.q_1
              /\ REq[wk'.q_1, Q]
              /\ wk'.p_1 = wk.p0
              /\ REq[wk'.p0, P]
              /\ REq[wk'.value, P]
              /\ <<wk'.order, wk'.R, wk'.C, wk'.Z, wk'.phiName>>
                    = <<wk.order, wk.R, wk.C, wk.Z, wk.phiName>> ]_vars

\* an update has been accepted over three different flow histories
C15_Witness ==
    /\ Live(wk) /\ wk.updated
    /\ ~REq[wk.q_1, wk.q_2] /\ ~REq[wk.q_2, wk.q_3] /\ ~REq[wk.q_1, wk.q_3]
    /\ ~REq[wk.p0, wk.p_1]

\* C19: the replicas of a pressure boundary on the processes sharing a patch
\* compute the same flow Q from the patch flux, hence the same pressure.
C19_ParallelConsistentQ ==
    /\ Live(wk) =>
          REq[ WKPressure(wk, LocalSum(phi), deltaT),
               WKPressure(wk, LocalSum(OtherProcess(phi)), deltaT) ]
    /\ Live(vf) => REq[GSum(phi), GSum(OtherProcess(phi))]

DictStateSizeMismatch ==
    Found(vfDict, "stateVariables") /\ Len(vfDict["stateVariables"]) # DictNPoles

\* the instance has admitted no update yet
Fresh(f) == REq[f.lastUpdateTime, RNeg[GREAT]]

\* C12: a stateVariables entry of the wrong length does not stop construction:
\* accumulators and snapshot start as nPoles zeros and the first update
\* advances them from zero; an entry of length nPoles is used as read.
C12_StateSizeMismatchRecovers ==
    (vfDict \in VFGoodDicts /\ Found(vfDict, "stateVariables")) =>
        /\ Live(vf) \/ ~phiFound
        /\ (Live(vf) /\ Fresh(vf)) =>
              LET expect == IF DictStateSizeMismatch
                            THEN Zeros(DictNPoles) ELSE vfDict["stateVariables"]
              IN  /\ vf.stateVariables = expect
                  /\ vf.stateVariables_old = expect
        /\ (Live(vf) /\ DictStateSizeMismatch /\ step = 0 /\ REq[vf.lastUpdateTime, time]) =>
              \A i \in 1..DictNPoles :
                  REq[ vf.stateVariables[i],
                       RMul[RMul[vf.residues[i], vf.q0],
                            UpdConvolutionTerm(vf.poles[i], deltaT)] ]

\* an instance built from a restart entry of the wrong length has been updated
C12_Witness ==
    /\ DictStateSizeMismatch /\ Live(vf) /\ vf.updated
    /\ step = 0 /\ REq[vf.lastUpdateTime, time]
    /\ ~REq[vf.q0, RZero]
    /\ ~REq[vf.stateVariables[1], RZero]

\* a density other than the configured ones
OtherRho == RInt[3]

\* C20: from every reachable state, the dynamic and the kinematic variant of
\* the instance advance to the same stateVariables; pressure, Z_eff and
\* historical source of the dynamic variant are those of the kinematic one
\* divided by rho, and the kinematic ones do not depend on rho.
C20_UnitsOnlyAtOutput ==
    Live(vf) =>
        LET Q  == GSum(phi)
            d  == [vf EXCEPT !.impedanceUnits = "dynamic"]
            k  == [vf EXCEPT !.impedanceUnits = "kinematic", !.rho = OtherRho]
            zd == UpdStateVariables(d, Q, deltaT)
            zk == UpdStateVariables(k, Q, deltaT)
            Pd == UpdPressure(d, zd, Q)
            Pk == UpdPressure(k, zk, Q)
        IN  /\ zd = zk
            /\ REq[Pk, UpdBoundaryValue(k, Pk)]
            /\ REq[UpdBoundaryValue(d, Pd), RDiv[UpdBoundaryValue(k, Pk), vf.rho]]
            /\ REq[ CalculateEffectiveImpedance(d, deltaT),
                    RDiv[CalculateEffectiveImpedance(k, deltaT), vf.rho] ]
            /\ REq[ HistoricalSourceKin(d, deltaT),
                    RDiv[HistoricalSourceKin(k, deltaT), vf.rho] ]

\* a dynamic-units instance with rho other than 1 holds non-zero accumulators
\* and a non-zero pressure after an update
C20_Witness ==
    /\ Live(vf) /\ vf.impedanceUnits = "dynamic" /\ vf.updated
    /\ ~REq[vf.rho, ROne]
    /\ ~REq[vf.value, RZero]
    /\ \A i \in 1..Len(vf.poles) : ~REq[vf.stateVariables[i], RZero]

\* the normal coefficient configured for the instance (none in the single-beta build)
ConfiguredBetaN(f) == IF f.build = "twoParameter" THEN f.betaN ELSE RZero

\* the tensor field of the build's formula on a flux
StabFormula(f, flux) ==
    IF f.build = "twoParameter" THEN SWValueFraction(f, flux) ELSE SBValueFraction(f, flux)

IsZeroTensor(T) == REq[T.n, RZero] /\ REq[T.t, RZero]

InUnit(x) == RLe[RZero, x] /\ RLe[x, ROne]

\* C16: with betaN = 0, an update of the stabilizer leaves the zero tensor on
\* every face whose flux is >= 0, zero included.
C16_ForwardFlowNoOp ==
    [][ (Live(sw) /\ ~sw.updated /\ outer' = outer + 1 /\ REq[ConfiguredBetaN(sw), RZero]) =>
          \A i \in 1..Len(phi) :
              RLe[RZero, phi[i]] => IsZeroTensor(sw'.valueFraction[i]) ]_vars

\* C17: on every face the valueFraction tensor has its normal and its
\* tangential eigenvalue in [0, 1], whatever beta and dampingFactor are.
C17_TensorBounded ==
    Live(sw) =>
        \A i \in 1..Len(sw.valueFraction) :
            InUnit(sw.valueFraction[i].n) /\ InUnit(sw.valueFraction[i].t)

\* C18 as stated: after every call of the stabilizer's updateCoeffs the
\* valueFraction field is the formula evaluated on the flux at that call.
C18_RecomputedEveryCall ==
    [][ (Live(sw) /\ outer' = outer + 1) => sw'.valueFraction = StabFormula(sw, phi) ]_vars

\* C18 amended: a call of updateCoeffs made with the base-class updated flag
\* clear leaves the formula evaluated on the flux at that call, whatever the
\* earlier calls and fluxes were; a call made with the flag set leaves the
\* field as it was; the configured parameters never change.
C18_RecomputedWhenNotUpdated ==
    [][ (Live(sw) /\ outer' = outer + 1) =>
          /\ sw'.valueFraction =
                IF sw.updated THEN sw.valueFraction ELSE StabFormula(sw, phi)
          /\ [sw' EXCEPT !.valueFraction = ZeroTensors(phi), !.value = SWValue,
                          !.updated = FALSE]
                = [sw EXCEPT !.valueFraction = ZeroTensors(phi), !.value = SWValue,
                             !.updated = FALSE] ]_vars

\* at least two calls were made in this timestep; the field is the formula
\* on the present flux, differs from the formula on another flux and is not
\* the zero field
C18_Witness ==
    /\ Live(sw) /\ outer >= 2
    /\ sw.valueFraction = StabFormula(sw, phi)
    /\ \E f \in PhiValues : sw.valueFraction # StabFormula(sw, f)
    /\ \E i \in 1..Len(phi) : ~IsZeroTensor(sw.valueFraction[i])

\* C21: an instance built from a dictionary without couplingMode is in
\* explicit mode, and in explicit mode valueInternalCoeffs and
\* valueBoundaryCoeffs return the fixed-value base coefficients (zero, and the
\* patch value) for every weight and timestep, whatever the accumulators hold.
C21_ExplicitIsFixedValue ==
    /\ (Live(vf) /\ ~Found(vfDict, "couplingMode")) => vf.couplingMode = "explicit"
    /\ (Live(vf) /\ vf.couplingMode = "explicit") =>
          /\ \A w \in WValues : \A dt \in DeltaTs :
                /\ ValueInternalCoeffs(vf, dt, w) = BaseValueInternalCoeffs(vf, w)
                /\ ValueBoundaryCoeffs(vf, dt, w) = BaseValueBoundaryCoeffs(vf, w)
          /\ ret.fn = "valueInternalCoeffs" => REq[ret.val, RZero]
          /\ ret.fn = "valueBoundaryCoeffs" => REq[ret.val, vf.value]

\* valueBoundaryCoeffs has returned on an instance that is explicit by default
\* and holds a non-zero snapshot left by an update
C21_Witness ==
    /\ Live(vf) /\ ~Found(vfDict, "couplingMode") /\ vf.couplingMode = "explicit"
    /\ ret.fn = "valueBoundaryCoeffs"
    /\ ~Fresh(vf)
    /\ \A i \in 1..Len(vf.poles) : ~REq[vf.stateVariables_old[i], RZero]
    /\ ~REq[HistoricalSourceKin(vf, deltaT), RZero]

\* C22: right after construction from a dictionary, p_1 is the p_1 entry or,
\* without one, p0; q_2 is the q_2 entry or q_1; q_3 is the q_3 entry or the
\* q_2 just obtained; p0 and q_1 are their entries; and the boundary value is
\* p0, whatever the value entry holds.
C22_RCRHistoryDefaults ==
    (Live(wk) /\ step = 0 /\ outer = 0) =>
        LET q_2 == IF Found(wkDict, "q_2") THEN wkDict["q_2"] ELSE wkDict["q_1"]
        IN  /\ wk.p0 = wkDict["p0"]
            /\ wk.q_1 = wkDict["q_1"]
            /\ wk.p_1 = (IF Found(wkDict, "p_1") THEN wkDict["p_1"] ELSE wkDict["p0"])
            /\ wk.q_2 = q_2
            /\ wk.q_3 = (IF Found(wkDict, "q_3") THEN wkDict["q_3"] ELSE q_2)
            /\ wk.value = wkDict["p0"]

\* an instance built from a dictionary that gives q_2 (other than q_1) but no
\* q_3, and a value entry other than p0
C22_Witness ==
    /\ Live(wk) /\ step = 0 /\ outer = 0
    /\ Found(wkDict, "q_2") /\ ~Found(wkDict, "q_3") /\ Found(wkDict, "p_1")
    /\ ~REq[wkDict["q_2"], wkDict["q_1"]]
    /\ ~REq[wkDict["value"], wkDict["p0"]]
    /\ REq[wk.q_3, wkDict["q_2"]]

\* the instance with stabilization switched off, about to update
SwitchedOff(f) == [f EXCEPT !.enableStabilization = FALSE, !.updated = FALSE]

\* C23: with enableStabilization = false the valueFraction tensor is zero on
\* every face in every state (after any calls, on forward and reversed
\* flux), and from every reachable parameter set an update made with the
\* switch off leaves the zero tensor on every face for every flux.
C23_DisabledIsZero ==
    Live(sw) =>
        /\ ~sw.enableStabilization =>
              \A i \in 1..Len(sw.valueFraction) : IsZeroTensor(sw.valueFraction[i])
        /\ \A flux \in PhiValues :
              \A i \in 1..Len(flux) :
                  IsZeroTensor(StabUpdateCoeffs(SwitchedOff(sw), flux).valueFraction[i])

\* a switched-off instance with a non-zero coefficient has been updated twice
\* in this timestep and the flux is reversed on a face
C23_Witness ==
    /\ Live(sw) /\ ~sw.enableStabilization /\ outer >= 2
    /\ \E i \in 1..Len(phi) : RLt[phi[i], RZero]
    /\ ~REq[IF sw.build = "twoParameter" THEN EffBetaT(sw) ELSE EffectiveDamping(sw), RZero]

\* C24: a call of updateCoeffs made with the updated flag clear at time t is
\* admitted exactly when |t - lastUpdateTime| >= SMALL: an admitted call sets
\* lastUpdateTime to t and (the flux field being there) advances the
\* accumulators once from the flow on the patch; a rejected call leaves
\* lastUpdateTime, accumulators, snapshot, flows and pressure as they were;
\* an instance that has admitted nothing yet admits the call.
C24_UpdateGate ==
    [][ (Live(vf) /\ ~vf.updated /\ outer' = outer + 1) =>
          LET admit == RLe[SMALL, RMag[RSub[time, vf.lastUpdateTime]]]
          IN  /\ admit =>
                    /\ REq[vf'.lastUpdateTime, time]
                    /\ phiFound =>
                          /\ vf'.stateVariables = UpdStateVariables(vf, GSum(phi), deltaT)
                          /\ REq[vf'.q0, GSum(phi)]
              /\ ~admit => VFFrame(vf') = VFFrame(vf)
              /\ Fresh(vf) => admit
              /\ ~REq[time, vf.lastUpdateTime] => admit ]_vars

\* in a second timestep an update was admitted, advancing non-zero
\* accumulators, and a later call at the same time found the flux changed
C24_Witness ==
    /\ Live(vf) /\ step >= 1 /\ outer >= 2 /\ vf.updated
    /\ REq[vf.lastUpdateTime, time] /\ ~REq[time, RZero]
    /\ ~REq[GSum(phi), vf.q0]
    /\ \E i \in 1..Len(vf.poles) : ~REq[vf.stateVariables[i], RZero]

\* the order-3 step of a BDF3 scheme that keeps three pressure samples
\* P1 = P(t - dt), P2 = P(t - 2 dt), P3 = P(t - 3 dt), for the flows of f
BDF3Reference(f, q0, P1, P2, P3, dt) ==
    LET Q_source   == RAdd[ RMul[RDiv[q0, f.C], RAdd[ROne, RDiv[f.Z, f.R]]],
                            RMul[RDiv[f.Z, dt],
                                 RSub[RAdd[RSub[RMul[Rat[11, 6], q0], RMul[RInt[3], f.q_1]],
                                           RMul[Rat[3, 2], f.q_2]],
                                      RMul[Rat[1, 3], f.q_3]]] ]
        Pgrad_part == RDiv[RSub[RAdd[RMul[RInt[-3], P1], RMul[Rat[3, 2], P2]],
                                RMul[Rat[1, 3], P3]], dt]
        Pdenom     == RAdd[RDiv[Rat[11, 6], dt], RDiv[ROne, RMul[f.R, f.C]]]
    IN  RDiv[RSub[Q_source, Pgrad_part], Pdenom]

\* C25: from every reachable state of an order-3 instance, after one more
\* accepted step the next step emits the pressure of the BDF3 reference fed
\* with the three most recent pressures (the one just emitted, p0 and p_1
\* of before) and the four most recent flows.
C25_RCROrder3IsBDF3 ==
    (Live(wk) /\ wk.order = 3) =>
        LET s  == [wk EXCEPT !.updated = FALSE]
            Q  == LocalSum(phi)
            f1 == WKUpdateCoeffs(s, phi, deltaT)
        IN  REq[ WKPressure(f1, Q, deltaT),
                 BDF3Reference(f1, Q, f1.p0, s.p0, s.p_1, deltaT) ]

\* the flux with its sign flipped on every face
Flipped(flux) == [i \in 1..Len(flux) |-> RNeg[flux[i]]]

\* C26: while every face flux is noise of magnitude VSMALL around zero, the
\* tensor field an update leaves is the one the formula gives for the
\* sign-flipped flux, so a sign flip of such a flux between two outer
\* iterations does not change it.
C26_DeadbandNoToggle ==
    (Live(sw) /\ phi \in NoiseFluxes) =>
        /\ StabFormula(sw, phi) = StabFormula(sw, Flipped(phi))
        /\ ~sw.updated => StabUpdateCoeffs(sw, phi).valueFraction
                              = StabUpdateCoeffs(sw, Flipped(phi)).valueFraction

\* face-wise equality of two vector fields
VecFieldEq(a, b) ==
    /\ Len(a) = Len(b)
    /\ \A i \in 1..Len(a) : REq[a[i].n, b[i].n] /\ REq[a[i].t, b[i].t]

\* C27: a call of the stabilizer's updateCoeffs leaves the patch velocity
\* values as they were before the call, and refValue and refGrad zero.
C27_UpdateLeavesPatchValues ==
    [][ (Live(sw) /\ outer' = outer + 1) =>
          /\ VecFieldEq(sw'.value, sw.value)
          /\ VecFieldEq(sw'.refValue, ZeroVectors(sw.value))
          /\ VecFieldEq(sw'.refGrad, ZeroVectors(sw.value)) ]_vars

\* flow history constant at Q and pressure history at (R + Z) Q
Steady(f, Q) ==
    /\ REq[f.q_1, Q] /\ REq[f.q_2, Q] /\ REq[f.q_3, Q]
    /\ REq[f.p0, RMul[RAdd[f.R, f.Z], Q]]
    /\ REq[f.p_1, RMul[RAdd[f.R, f.Z], Q]]

\* C28: an accepted update of an RCR instance of order 1, 2 or 3 whose
\* histories are steady at the flow Q now on the patch emits (R + Z) Q and
\* leaves the histories steady at Q.
C28_RCRSteadyFixedPoint ==
    [][ ( /\ Live(wk) /\ wk.order \in {1, 2, 3}
          /\ ~wk.updated /\ outer' = outer + 1
          /\ Steady(wk, LocalSum(phi)) ) =>
        /\ REq[wk'.value, RMul[RAdd[wk.R, wk.Z], LocalSum(phi)]]
        /\ Steady(wk', LocalSum(phi)) ]_vars

\* an order-3 instance with Z > 0 has been updated at steady state in a
\* second timestep, after updates in the first, at a non-zero pressure
C28_Witness ==
    /\ Live(wk) /\ wk.order = 3 /\ wk.updated /\ step >= 1 /\ outer >= 2
    /\ RLt[RZero, wk.Z]
    /\ Steady(wk, LocalSum(phi))
    /\ REq[wk.value, RMul[RAdd[wk.R, wk.Z], LocalSum(phi)]]
    /\ ~REq[wk.value, RZero]

\* C29: an admitted call of the pole-residue update made while the flux field
\* is missing ends in a fatal error, and stateVariables, the snapshot, q0,
\* q_1, the boundary pressure and lastUpdateTime are what they were before
\* the call.
C29_MissingFluxNoProgress ==
    [][ ( /\ Live(vf) /\ ~vf.updated /\ outer' = outer + 1
          /\ ~phiFound /\ ~GateRejects(vf, time) ) =>
        /\ vf'.status = "fatal"
        /\ vf'.stateVariables = vf.stateVariables
        /\ vf'.stateVariables_old = vf.stateVariables_old
        /\ vf'.q0 = vf.q0 /\ vf'.q_1 = vf.q_1
        /\ vf'.value = vf.value
        /\ REq[vf'.lastUpdateTime, vf.lastUpdateTime] ]_vars

SnapshotIsLive(f) == Live(f) => RSeqEq(f.stateVariables_old, f.stateVariables)

=============================================================================
